---- MODULE Spec2Model ----
(***************************************************************************)
(* Order lifecycle of the marketplace backend: the session cart            *)
(* (cart/cart.py, cart/views.py), checkout (OrderView.post), confirmation  *)
(* (OrderDetailView.post with OrderConfirmSerializer) and payment          *)
(* (PaymentView.post with PaymentSerializer).                              *)
(*                                                                         *)
(* Amounts are whole numbers, as in the repository's tests.  Card fields   *)
(* are sequences of one-character strings, so that str.isdigit, len and    *)
(* int are computed, not assumed.                                          *)
(***************************************************************************)
EXTENDS Integers, Sequences, FiniteSets, TLC

\* ------------------------------------------------------------------ bounds
\* the number of Order rows the table may hold
MaxOrders == 1
\* the largest count a cart line may reach
MaxCount == 1
\* the longest year, code and month strings given to payment validation
MaxCardLen == 5
MaxMonthLen == 3

\* ------------------------------------------------------- the environment
Users == {"u1", "u2"}
Anonymous == "anon"
Clients == Users \cup {Anonymous}
\* the workers that handle requests at the same time
Workers == {"w1", "w2"}
\* the sessions that fill a cart and check it out
CartClients == {"u1"}
CheckoutClients == {"u1", Anonymous}

\* catalog rows: product id -> price
Products == {1, 2}
\* an id past the last row of the catalog
MissingProduct == Cardinality(Products) + 1
Quantities == {1, 2}
Price == [p \in Products |-> IF p = 1 THEN 10 ELSE 30]
\* the prices the shop's staff may give to a product later
NewPrices == {10, 15}

\* rows of OrderDeliveryType: type -> (min_cost, delivery_cost)
DeliveryTypes == {"free", "express"}
OrderDeliveryType ==
    [t \in DeliveryTypes |->
        IF t = "free" THEN [min_cost |-> 2000, delivery_cost |-> 200]
                      ELSE [min_cost |-> 0, delivery_cost |-> 500]]

VARIABLES
    orders,       \* Order rows; the primary key of a row is its index
    orderItems,   \* OrderItem rows, in insertion order
    payments,     \* Payment rows, in insertion order
    cart,         \* per client session: session['cart']['items']
    session_order_id, \* per client session: session.get('order_id'), 0 if absent
    request,      \* the request handled last
    response,     \* the response returned last
    reqs,         \* per worker: the confirmation or payment request it handles
    card,         \* a payment payload under PaymentSerializer validation
    catalog       \* Product rows: product id -> the price column

vars == <<orders, orderItems, payments, cart, session_order_id,
          request, response, reqs, card, catalog>>

db == <<orders, orderItems, payments>>

OrderIds == 1..Len(orders)

\* --------------------------------------------------------------- the cart
RECURSIVE SumLines(_)
SumLines(items) ==
    IF items = <<>> THEN 0
    ELSE items[1].price * items[1].count + SumLines(Tail(items))

\* a total priced from the catalog rows instead of the lines' snapshots
get_cart_total_Live(items) ==
    SumLines([i \in 1..Len(items) |->
                 [items[i] EXCEPT !.price = catalog[items[i].product_id]]])

get_cart_total(items) == SumLines(items)

InCart(items, product_id) == \E i \in 1..Len(items) : items[i].product_id = product_id

LineOf(items, product_id) == CHOOSE i \in 1..Len(items) : items[i].product_id = product_id

\* an add that never looks for the product's line
Cart_add_AlwaysAppend(items, product_id, quantity) ==
    Append(items, [product_id |-> product_id,
                   price |-> catalog[product_id],
                   count |-> quantity])

\* an add that takes the catalog's price again for a product in the cart
Cart_add_Reprice(items, product_id, quantity) ==
    IF InCart(items, product_id)
    THEN [items EXCEPT ![LineOf(items, product_id)].count = @ + quantity,
                       ![LineOf(items, product_id)].price = catalog[product_id]]
    ELSE Append(items, [product_id |-> product_id,
                        price |-> catalog[product_id],
                        count |-> quantity])

\* Cart.add: the new item list, for a product that is in the cart or in the catalog
Cart_add(items, product_id, quantity) ==
    IF InCart(items, product_id)
    THEN [items EXCEPT ![LineOf(items, product_id)].count = @ + quantity]
    ELSE Append(items, [product_id |-> product_id,
                        price |-> catalog[product_id],
                        count |-> quantity])

RemoveAt(items, i) == SubSeq(items, 1, i - 1) \o SubSeq(items, i + 1, Len(items))

\* a remove that deletes the line only below zero
Cart_remove_BelowZero(items, product_id, quantity) ==
    IF InCart(items, product_id)
    THEN LET i == LineOf(items, product_id)
             left == items[i].count - quantity
         IN  IF left < 0 THEN RemoveAt(items, i)
             ELSE [items EXCEPT ![i].count = left]
    ELSE items

\* Cart.remove
Cart_remove(items, product_id, quantity) ==
    IF InCart(items, product_id)
    THEN LET i == LineOf(items, product_id)
             left == items[i].count - quantity
         IN  IF left <= 0 THEN RemoveAt(items, i)
             ELSE [items EXCEPT ![i].count = left]
    ELSE items

\* the request handled last: operation, requesting user, the id in the URL
\* or body (the payload is an input of the handler, not kept)
Req(op, user, pk, data) == [op |-> op, user |-> user, pk |-> pk]
NoRequest == Req("none", Anonymous, 0, <<>>)
NoResponse == [status |-> 0, detail |-> "", errors |-> {}, orderId |-> 0, data |-> <<>>]

Resp(status, detail) ==
    [status |-> status, detail |-> detail, errors |-> {}, orderId |-> 0, data |-> <<>>]

\* Response(cart.get_cart_products(), status=200)
CartResponse(items) == [Resp(200, "") EXCEPT !.data = items]

\* a cart that keeps its lines when it is emptied
Cart_cleared_Kept(items) == items

\* the items the next request's Cart.__init__ finds after the cart dict was
\* emptied and saved: an empty dict is falsy, so {'items': []} is stored anew
Cart_cleared(items) == <<>>

\* CartAPI.get
CartAPI_get(client) ==
    /\ request' = Req("cart_get", client, 0, <<>>)
    /\ response' = CartResponse(cart[client])
    /\ UNCHANGED <<db, cart, session_order_id, reqs, card, catalog>>

CountAfterAdd(items, product_id, quantity) ==
    IF InCart(items, product_id)
    THEN items[LineOf(items, product_id)].count + quantity ELSE quantity

\* CartAPI.post
CartAPI_post(client, product_id, quantity) ==
    /\ CountAfterAdd(cart[client], product_id, quantity) \in -MaxCount..MaxCount
    /\ request' = Req("cart_add", client, product_id, <<>>)
    /\ IF InCart(cart[client], product_id) \/ product_id \in Products
       THEN /\ cart' = [cart EXCEPT ![client] = Cart_add(@, product_id, quantity)]
            /\ response' = CartResponse(cart'[client])
       ELSE /\ UNCHANGED cart
            /\ response' = Resp(500, "Product.DoesNotExist")
    /\ UNCHANGED <<db, session_order_id, reqs, card, catalog>>

\* CartAPI.delete
CartAPI_delete(client, product_id, quantity) ==
    /\ InCart(cart[client], product_id)
          => CountAfterAdd(cart[client], product_id, -quantity) <= MaxCount
    /\ request' = Req("cart_remove", client, product_id, <<>>)
    /\ cart' = [cart EXCEPT ![client] = Cart_remove(@, product_id, quantity)]
    /\ response' = CartResponse(cart'[client])
    /\ UNCHANGED <<db, session_order_id, reqs, card, catalog>>

\* ----------------------------------------------------------------- orders
\* Order.objects.create(profile=...): the column defaults of models.Order
NewOrder(profile) ==
    [profile |-> profile, deliveryType |-> "", paymentType |-> "",
     totalCost |-> 0, status |-> "", city |-> "", address |-> ""]

\* the request body of a checkout: a list of {id, count}
Bodies ==
    {<<>>,
     <<[id |-> 1, count |-> 1]>>,
     <<[id |-> MissingProduct, count |-> 1]>>,
     <<[id |-> 1, count |-> 1], [id |-> MissingProduct, count |-> 1]>>}

\* a body line the loop of OrderView.post gets through: product['id'] and
\* product['count'] are there and Product.objects.get finds the product
LineCreates(line) ==
    /\ {"id", "count"} \subseteq DOMAIN line
    /\ line.id \in Products

\* the exception a line raises that the loop does not get through
LineError(line) ==
    IF {"id", "count"} \subseteq DOMAIN line
    THEN "Product.DoesNotExist" ELSE "KeyError"

\* the prefix of the body the loop gets through: it creates one OrderItem
\* per line until a line raises
RECURSIVE ExistingPrefix(_)
ExistingPrefix(body) ==
    IF body = <<>> \/ ~LineCreates(body[1]) THEN <<>>
    ELSE <<body[1]>> \o ExistingPrefix(Tail(body))

\* a cart emptied before the order's items are created
OrderView_cart_ClearedFirst(items, failed) == Cart_cleared(items)

\* the session's items after OrderView.post: cart.cart.clear() and
\* cart.save() come after the loop and order.save()
OrderView_cart(items, failed) == IF failed THEN items ELSE Cart_cleared(items)

ItemsFor(pk, lines) ==
    [i \in 1..Len(lines) |->
        [order |-> pk, product |-> lines[i].id, quantity |-> lines[i].count]]

\* OrderView.post
OrderView_post(client, body) ==
    /\ request' = Req("checkout", client, 0, <<>>)
    /\ IF session_order_id[client] = 0 /\ client = Anonymous
       THEN \* request.user.profile: AnonymousUser has no profile
            /\ response' = Resp(500, "AttributeError")
            /\ UNCHANGED <<db, cart, session_order_id>>
       ELSE /\ session_order_id[client] = 0 => Len(orders) < MaxOrders
            /\ LET pk == IF session_order_id[client] # 0
                         THEN session_order_id[client] ELSE Len(orders) + 1
                   got == IF session_order_id[client] # 0
                          THEN orders ELSE Append(orders, NewOrder(client))
                   made == ExistingPrefix(body)
               IN  /\ orderItems' = orderItems \o ItemsFor(pk, made)
                   /\ IF Len(made) < Len(body)
                      THEN \* Product.DoesNotExist leaves the handler
                           /\ orders' = got
                           /\ response' = Resp(500, LineError(body[Len(made) + 1]))
                           /\ cart' = [cart EXCEPT ![client] = OrderView_cart(@, TRUE)]
                           /\ UNCHANGED session_order_id
                      ELSE /\ orders' = [got EXCEPT
                                  ![pk].totalCost = get_cart_total(cart[client]),
                                  ![pk].status = "accepted"]
                           /\ cart' = [cart EXCEPT ![client] = OrderView_cart(@, FALSE)]
                           /\ session_order_id' =
                                  [session_order_id EXCEPT ![client] = 0]
                           /\ response' = [Resp(201, "") EXCEPT !.orderId = pk]
                   /\ UNCHANGED payments
    /\ UNCHANGED <<reqs, card, catalog>>

\* ------------------------------------------------- rest_framework pieces
\* one entry of serializer.errors: the key, the message and its argument
Err(key, text, arg) == <<key, text, arg>>

ErrorKeys(errors) == {e[1] : e \in errors}

\* an update that loses the validated values
ModelSerializer_update_Dropped(instance, validated_data) == instance

\* ModelSerializer.update followed by instance.save(): setattr for every
\* validated key; only the keys that are columns of the row reach the table
ModelSerializer_update(instance, validated_data) ==
    [f \in DOMAIN instance |->
        IF f \in DOMAIN validated_data THEN validated_data[f] ELSE instance[f]]

\* ---------------------------------------------------------- confirmation
\* the writable CharFields of OrderSerializer (models.Order, no blank=True)
OrderCharFields == {"deliveryType", "paymentType", "status", "city", "address"}

OrderFieldErrors(data) ==
    {Err(f, "This field may not be blank.", "") :
        f \in {g \in DOMAIN data \cap OrderCharFields : data[g] = ""}}

\* validate with the fee waived from min_cost on
OrderConfirmSerializer_validate_AtLeast(data) ==
    LET delivery_type == data["deliveryType"]
        delivery_payment_parameters == OrderDeliveryType[delivery_type]
    IN  IF delivery_type = "free"
           /\ data["totalCost"] >= delivery_payment_parameters.min_cost
        THEN data
        ELSE [data EXCEPT !["totalCost"] =
                  @ + delivery_payment_parameters.delivery_cost]

\* OrderConfirmSerializer.validate, for data that holds both keys
OrderConfirmSerializer_validate(data) ==
    LET delivery_type == data["deliveryType"]
        delivery_payment_parameters == OrderDeliveryType[delivery_type]
    IN  IF delivery_type = "free"
           /\ data["totalCost"] > delivery_payment_parameters.min_cost
        THEN data
        ELSE [data EXCEPT !["totalCost"] =
                  @ + delivery_payment_parameters.delivery_cost]

\* is_valid() that lets a type without a pricing row pass, with no fee
OrderConfirmSerializer_is_valid_AnyType(data) ==
    IF OrderFieldErrors(data) # {}
    THEN [crash |-> FALSE, errors |-> OrderFieldErrors(data), validated_data |-> data]
    ELSE IF "deliveryType" \notin DOMAIN data
    THEN [crash |-> TRUE, errors |-> {}, validated_data |-> data]
    ELSE IF data["deliveryType"] \notin DeliveryTypes
    THEN [crash |-> FALSE, errors |-> {}, validated_data |-> data]
    ELSE IF "totalCost" \notin DOMAIN data
    THEN [crash |-> TRUE, errors |-> {}, validated_data |-> data]
    ELSE [crash |-> FALSE, errors |-> {},
          validated_data |-> OrderConfirmSerializer_validate(data)]

\* serializer.is_valid() of OrderConfirmSerializer(order, data, partial=True)
OrderConfirmSerializer_is_valid(data) ==
    IF OrderFieldErrors(data) # {}
    THEN [crash |-> FALSE, errors |-> OrderFieldErrors(data), validated_data |-> data]
    ELSE IF "deliveryType" \notin DOMAIN data
    THEN [crash |-> TRUE, errors |-> {}, validated_data |-> data]
    ELSE IF data["deliveryType"] \notin DeliveryTypes
    THEN [crash |-> FALSE,
          errors |-> {Err("non_field_errors", "Unsupported delivery type: ",
                          data["deliveryType"])},
          validated_data |-> data]
    ELSE IF "totalCost" \notin DOMAIN data
    THEN [crash |-> TRUE, errors |-> {}, validated_data |-> data]
    ELSE [crash |-> FALSE, errors |-> {},
          validated_data |-> OrderConfirmSerializer_validate(data)]

NoSaves(resp) == [response |-> resp, saves |-> <<>>, payments |-> <<>>]

\* OrderDetailView.post with the delivery cost added to the stored total
OrderDetailView_after_get_FeeOnStored(order, user, data) ==
    IF order.profile # user
    THEN NoSaves(Resp(403, "You do not have permission to update this order."))
    ELSE IF order.status = "paid"
    THEN NoSaves(Resp(403, "Paid orders cannot be updated."))
    ELSE LET v == OrderConfirmSerializer_is_valid(data)
         IN  IF v.crash THEN NoSaves(Resp(500, "KeyError"))
             ELSE IF v.errors # {}
             THEN NoSaves([Resp(400, "") EXCEPT !.errors = v.errors])
             ELSE LET fee == v.validated_data.totalCost - data.totalCost
                      updated == ModelSerializer_update(order,
                                    [v.validated_data EXCEPT
                                        !.totalCost = order.totalCost + fee])
                  IN  [response |-> Resp(200, ""),
                       saves |-> <<updated, [updated EXCEPT !.status = "confirmed"]>>,
                       payments |-> <<>>]

\* OrderDetailView.post without the check of lines 308-309
OrderDetailView_after_get_NoPaidCheck(order, user, data) ==
    IF order.profile # user
    THEN NoSaves(Resp(403, "You do not have permission to update this order."))
    ELSE LET v == OrderConfirmSerializer_is_valid(data)
         IN  IF v.crash THEN NoSaves(Resp(500, "KeyError"))
             ELSE IF v.errors # {}
             THEN NoSaves([Resp(400, "") EXCEPT !.errors = v.errors])
             ELSE LET updated == ModelSerializer_update(order, v.validated_data)
                  IN  [response |-> Resp(200, ""),
                       saves |-> <<updated, [updated EXCEPT !.status = "confirmed"]>>,
                       payments |-> <<>>]

\* OrderDetailView.post after Order.objects.get returned the row: the
\* response, and the rows written by serializer.save() and order.save()
OrderDetailView_after_get(order, user, data) ==
    IF order.profile # user
    THEN NoSaves(Resp(403, "You do not have permission to update this order."))
    ELSE IF order.status = "paid"
    THEN NoSaves(Resp(403, "Paid orders cannot be updated."))
    ELSE LET v == OrderConfirmSerializer_is_valid(data)
         IN  IF v.crash THEN NoSaves(Resp(500, "KeyError"))
             ELSE IF v.errors # {}
             THEN NoSaves([Resp(400, "") EXCEPT !.errors = v.errors])
             ELSE LET updated == ModelSerializer_update(order, v.validated_data)
                  IN  [response |-> Resp(200, ""),
                       saves |-> <<updated, [updated EXCEPT !.status = "confirmed"]>>,
                       payments |-> <<>>]

NotAuthenticated == Resp(403, "Authentication credentials were not provided.")
OrderNotFound == Resp(404, "Order not found.")

\* the table after a handler that ran alone wrote its rows
Written(pk, out) ==
    IF out.saves = <<>> THEN orders
    ELSE [orders EXCEPT ![pk] = out.saves[Len(out.saves)]]

\* OrderSerializer(order).data: the fields of the representation the
\* model keeps
OrderSerializer_data(pk, order) ==
    [id |-> pk, fullName |-> order.profile, deliveryType |-> order.deliveryType,
     paymentType |-> order.paymentType, totalCost |-> order.totalCost,
     status |-> order.status, city |-> order.city, address |-> order.address]

\* OrderDetailView.get: OrderSerializer(Order.objects.filter(pk=...), many=True)
OrderDetailView_get(user, pk) ==
    /\ request' = Req("detail", user, pk, <<>>)
    /\ response' =
          IF user = Anonymous THEN NotAuthenticated
          ELSE [Resp(200, "") EXCEPT !.data =
                   IF pk \in OrderIds
                   THEN <<OrderSerializer_data(pk, orders[pk])>> ELSE <<>>]
    /\ UNCHANGED <<db, cart, session_order_id, reqs, card, catalog>>

\* OrderDetailView.post
OrderDetailView_post(user, pk, data) ==
    /\ request' = Req("confirm", user, pk, data)
    /\ IF user = Anonymous
       THEN response' = NotAuthenticated /\ UNCHANGED db
       ELSE IF pk \notin OrderIds
       THEN response' = OrderNotFound /\ UNCHANGED db
       ELSE LET out == OrderDetailView_after_get(orders[pk], user, data)
            IN  /\ response' = out.response
                /\ orders' = Written(pk, out)
                /\ payments' = payments \o out.payments
                /\ UNCHANGED orderItems
    /\ UNCHANGED <<cart, session_order_id, reqs, card, catalog>>

\* ---------------------------------------------------------------- payment
Digits == {"0", "1", "2", "3", "4", "5", "6", "7", "8", "9"}
DigitChars == <<"0", "1", "2", "3", "4", "5", "6", "7", "8", "9">>
DigitValue(c) == (CHOOSE i \in 1..10 : DigitChars[i] = c) - 1

\* str.isdigit: at least one character and every character a digit
isdigit(value) == Len(value) > 0 /\ \A i \in 1..Len(value) : value[i] \in Digits

\* int(value) of a string of digits
RECURSIVE int(_)
int(value) ==
    IF value = <<>> THEN 0
    ELSE int(SubSeq(value, 1, Len(value) - 1)) * 10 + DigitValue(value[Len(value)])

\* PaymentSerializer.validate_year: TRUE when the value is accepted
validate_year(value) == ~(~isdigit(value) \/ Len(value) # 4)

\* validate_month with the upper limit off by one
validate_month_OffByOne(value) ==
    ~(~isdigit(value) \/ ~(1 <= int(value) /\ int(value) <= 13))

\* PaymentSerializer.validate_month
validate_month(value) == ~(~isdigit(value) \/ ~(1 <= int(value) /\ int(value) <= 12))

\* PaymentSerializer.validate_code
validate_code(value) == ~(~isdigit(value) \/ ~(3 <= Len(value) /\ Len(value) <= 4))

\* max_length of the CharFields of models.Payment
PaymentMaxLength ==
    [f \in {"number", "name", "year", "month", "code"} |->
        CASE f = "number" -> 8 [] f = "name" -> 100 [] f = "year" -> 4
          [] f = "month" -> 2 [] f = "code" -> 4]

\* the errors of one field: the CharField built from the model runs first
\* (blank, max_length), the validate_<field> method only after it passed
PaymentFieldErrors(f, value) ==
    IF value = <<>>
    THEN {Err(f, "This field may not be blank.", "")}
    ELSE IF Len(value) > PaymentMaxLength[f]
    THEN {Err(f, "Ensure this field has no more than N characters.",
              ToString(PaymentMaxLength[f]))}
    ELSE IF f = "year" /\ ~validate_year(value)
    THEN {Err(f, "Expiry year must be a 4-digit number.", "")}
    ELSE IF f = "month" /\ ~validate_month(value)
    THEN {Err(f, "Expiry month must be a number between 01 and 12.", "")}
    ELSE IF f = "code" /\ ~validate_code(value)
    THEN {Err(f, "CVV must be a 3 or 4-digit number.", "")}
    ELSE {}

\* serializer.errors of PaymentSerializer(order, data=request.data)
PaymentSerializer_errors(data) ==
    UNION {PaymentFieldErrors(f, data[f]) : f \in DOMAIN data}

\* PaymentView.post without the check of lines 341-342
PaymentView_after_get_NoPaidCheck(order, user, data) ==
    IF order.profile # user
    THEN NoSaves(Resp(403, "You do not have permission to confirm payment for this order."))
    ELSE IF PaymentSerializer_errors(data) # {}
    THEN NoSaves([Resp(400, "") EXCEPT !.errors = PaymentSerializer_errors(data)])
    ELSE LET updated == ModelSerializer_update(order, data)
         IN  [response |-> Resp(200, ""),
              saves |-> <<updated, [updated EXCEPT !.status = "paid"]>>,
              payments |-> <<>>]

\* PaymentView.post with the serializer validated before the paid check
PaymentView_after_get_ValidateFirst(order, user, data) ==
    IF order.profile # user
    THEN NoSaves(Resp(403, "You do not have permission to confirm payment for this order."))
    ELSE IF PaymentSerializer_errors(data) # {}
    THEN NoSaves([Resp(400, "") EXCEPT !.errors = PaymentSerializer_errors(data)])
    ELSE IF order.status = "paid"
    THEN NoSaves(Resp(403, "Paid orders cannot be updated."))
    ELSE LET updated == ModelSerializer_update(order, data)
         IN  [response |-> Resp(200, ""),
              saves |-> <<updated, [updated EXCEPT !.status = "paid"]>>,
              payments |-> <<>>]

\* PaymentView.post without the check of lines 338-339
PaymentView_after_get_NoOwnerCheck(order, user, data) ==
    IF order.status = "paid"
    THEN NoSaves(Resp(403, "Paid orders cannot be updated."))
    ELSE IF PaymentSerializer_errors(data) # {}
    THEN NoSaves([Resp(400, "") EXCEPT !.errors = PaymentSerializer_errors(data)])
    ELSE LET updated == ModelSerializer_update(order, data)
         IN  [response |-> Resp(200, ""),
              saves |-> <<updated, [updated EXCEPT !.status = "paid"]>>,
              payments |-> <<>>]

\* PaymentView.post with the paid check before the ownership check
PaymentView_after_get_PaidFirst(order, user, data) ==
    IF order.status = "paid"
    THEN NoSaves(Resp(403, "Paid orders cannot be updated."))
    ELSE IF order.profile # user
    THEN NoSaves(Resp(403, "You do not have permission to confirm payment for this order."))
    ELSE IF PaymentSerializer_errors(data) # {}
    THEN NoSaves([Resp(400, "") EXCEPT !.errors = PaymentSerializer_errors(data)])
    ELSE LET updated == ModelSerializer_update(order, data)
         IN  [response |-> Resp(200, ""),
              saves |-> <<updated, [updated EXCEPT !.status = "paid"]>>,
              payments |-> <<>>]

\* PaymentView.post that takes a payment for a confirmed order only
PaymentView_after_get_ConfirmedOnly(order, user, data) ==
    IF order.profile # user
    THEN NoSaves(Resp(403, "You do not have permission to confirm payment for this order."))
    ELSE IF order.status # "confirmed"
    THEN NoSaves(Resp(403, "Paid orders cannot be updated."))
    ELSE IF PaymentSerializer_errors(data) # {}
    THEN NoSaves([Resp(400, "") EXCEPT !.errors = PaymentSerializer_errors(data)])
    ELSE LET updated == ModelSerializer_update(order, data)
         IN  [response |-> Resp(200, ""),
              saves |-> <<updated, [updated EXCEPT !.status = "paid"]>>,
              payments |-> <<>>]

\* PaymentView.post after Order.objects.get returned the row.  The view
\* passes the order as the serializer's instance, so serializer.save() runs
\* ModelSerializer.update on the order and never PaymentSerializer.create:
\* the card fields become attributes of the order object, the row is
\* written back as it was read, and no Payment row is inserted.
PaymentView_after_get(order, user, data) ==
    IF order.profile # user
    THEN NoSaves(Resp(403, "You do not have permission to confirm payment for this order."))
    ELSE IF order.status = "paid"
    THEN NoSaves(Resp(403, "Paid orders cannot be updated."))
    ELSE IF PaymentSerializer_errors(data) # {}
    THEN NoSaves([Resp(400, "") EXCEPT !.errors = PaymentSerializer_errors(data)])
    ELSE LET updated == ModelSerializer_update(order, data)
         IN  [response |-> Resp(200, ""),
              saves |-> <<updated, [updated EXCEPT !.status = "paid"]>>,
              payments |-> <<>>]

\* PaymentView.post
PaymentView_post(user, pk, data) ==
    /\ request' = Req("payment", user, pk, data)
    /\ IF user = Anonymous
       THEN response' = NotAuthenticated /\ UNCHANGED db
       ELSE IF pk \notin OrderIds
       THEN response' = OrderNotFound /\ UNCHANGED db
       ELSE LET out == PaymentView_after_get(orders[pk], user, data)
            IN  /\ response' = out.response
                /\ orders' = Written(pk, out)
                /\ payments' = payments \o out.payments
                /\ UNCHANGED orderItems
    /\ UNCHANGED <<cart, session_order_id, reqs, card, catalog>>

\* ------------------------------------------------------------ the inputs
ConfirmBase ==
    [deliveryType |-> "free", paymentType |-> "online", city |-> "London",
     address |-> "221b, Bakers str.", totalCost |-> 1999]

Only(data, keys) == [k \in keys |-> data[k]]

With(data, key, value) ==
    [k \in DOMAIN data \cup {key} |-> IF k = key THEN value ELSE data[k]]

ConfirmPayloads ==
    {ConfirmBase,
     [ConfirmBase EXCEPT !.totalCost = 2999],
     [ConfirmBase EXCEPT !.deliveryType = "express"],
     [ConfirmBase EXCEPT !.deliveryType = "drone"],
     With(ConfirmBase, "status", "accepted"),
     [ConfirmBase EXCEPT !.city = ""],
     Only(ConfirmBase, {"deliveryType"}),
     Only(ConfirmBase, {})}

PaymentBase ==
    [number |-> <<"1", "2", "3", "4", "5", "6", "7", "8">>,
     name |-> <<"A", "n", "n">>,
     year |-> <<"2", "0", "2", "5">>,
     month |-> <<"0", "2">>,
     code |-> <<"1", "2", "3">>]

PaymentPayloads ==
    {PaymentBase,
     [PaymentBase EXCEPT !.year = <<"2", "5">>],
     [PaymentBase EXCEPT !.month = <<"1", "3">>],
     [PaymentBase EXCEPT !.month = <<"1">>],
     [PaymentBase EXCEPT !.code = <<"c", "o", "d", "e">>],
     [PaymentBase EXCEPT !.month = <<"1", "3">>,
                         !.code = <<"1", "2", "3", "4", "5">>],
     [PaymentBase EXCEPT !.number = <<>>]}

\* ------------------------------------------------------ the initial state
\* a worker that handles no request
IdleWorker ==
    [pc |-> "idle", op |-> "none", user |-> Anonymous, pk |-> 0, data |-> <<>>,
     order |-> NewOrder(Anonymous), pending |-> <<>>, response |-> NoResponse]

\* no payload under validation
NoCard == [data |-> PaymentBase, validated |-> FALSE, errors |-> {}]

InitBase ==
    /\ orders = <<>>
    /\ orderItems = <<>>
    /\ payments = <<>>
    /\ cart = [c \in Clients |-> <<>>]
    /\ session_order_id = [c \in Clients |-> 0]
    /\ request = NoRequest
    /\ response = NoResponse
    /\ reqs = [w \in Workers |-> IdleWorker]
    /\ catalog = Price

Init == InitBase /\ card = NoCard

\* complete requests, one after the other
Next ==
    \/ \E c \in CartClients, p \in {1, MissingProduct}, q \in Quantities :
          CartAPI_post(c, p, q)
    \/ \E c \in CartClients, p \in {1}, q \in Quantities :
          CartAPI_delete(c, p, q)
    \/ \E u \in Clients, pk \in 1..(Len(orders) + 1), d \in ConfirmPayloads :
          OrderDetailView_post(u, pk, d)
    \/ \E u \in Clients, pk \in 1..(Len(orders) + 1), d \in PaymentPayloads :
          PaymentView_post(u, pk, d)
    \/ \E c \in CheckoutClients, b \in Bodies : OrderView_post(c, b)

Spec == Init /\ [][Next]_vars

\* --------------------------------------------- requests handled in parallel
\* Each worker handles one confirmation or payment request.  The points at
\* which workers interleave are the accesses to the Order table:
\* Order.objects.get, the instance.save() inside serializer.save(), and the
\* order.save() after the status assignment.  Model.save() writes every
\* column of the instance, so a row read earlier is written back whole.
\* order = Order.objects.get(pk=order_id)
Order_objects_get(w, op, user, pk, data) ==
    /\ reqs[w].pc = "idle"
    /\ reqs' = [reqs EXCEPT ![w] =
          IF pk \in OrderIds
          THEN [IdleWorker EXCEPT !.pc = "loaded", !.op = op, !.user = user,
                                  !.pk = pk, !.data = data, !.order = orders[pk]]
          ELSE [IdleWorker EXCEPT !.pc = "done", !.op = op, !.user = user,
                                  !.pk = pk, !.response = OrderNotFound]]
    /\ UNCHANGED <<db, cart, session_order_id, request, response, card, catalog>>

\* the ownership and paid checks on the loaded instance, is_valid() and
\* serializer.save()
serializer_save(w) ==
    /\ reqs[w].pc = "loaded"
    /\ LET r == reqs[w]
           out == IF r.op = "confirm"
                  THEN OrderDetailView_after_get(r.order, r.user, r.data)
                  ELSE PaymentView_after_get(r.order, r.user, r.data)
       IN  IF out.saves = <<>>
           THEN /\ reqs' = [reqs EXCEPT ![w].pc = "done",
                                        ![w].response = out.response]
                /\ UNCHANGED db
           ELSE /\ orders' = [orders EXCEPT ![r.pk] = out.saves[1]]
                /\ payments' = payments \o out.payments
                /\ reqs' = [reqs EXCEPT ![w].pc = "saved",
                                        ![w].order = out.saves[1],
                                        ![w].pending = Tail(out.saves),
                                        ![w].response = out.response]
                /\ UNCHANGED orderItems
    /\ UNCHANGED <<cart, session_order_id, request, response, card, catalog>>

\* order.status = ...; order.save(); return Response(status=200)
order_save(w) ==
    /\ reqs[w].pc = "saved"
    /\ orders' = [orders EXCEPT ![reqs[w].pk] = reqs[w].pending[1]]
    /\ reqs' = [reqs EXCEPT ![w].pc = "done", ![w].order = reqs[w].pending[1],
                            ![w].pending = <<>>]
    /\ UNCHANGED <<orderItems, payments, cart, session_order_id, request,
                   response, card, catalog>>

\* a request that has returned its response
Returned(w, op, status) ==
    /\ reqs[w].pc = "done"
    /\ reqs[w].op = op
    /\ reqs[w].response.status = status

ConcurrentConfirmPayloads == {ConfirmBase, [ConfirmBase EXCEPT !.deliveryType = "drone"]}
ConcurrentPaymentPayloads == {PaymentBase, [PaymentBase EXCEPT !.month = <<"1", "3">>]}

NextConcurrent ==
    \/ OrderView_post("u1", <<>>)
    \/ \E w \in Workers, u \in Users, pk \in 1..(Len(orders) + 1),
          d \in ConcurrentConfirmPayloads :
             Order_objects_get(w, "confirm", u, pk, d)
    \/ \E w \in Workers, u \in Users, pk \in 1..(Len(orders) + 1),
          d \in ConcurrentPaymentPayloads :
             Order_objects_get(w, "payment", u, pk, d)
    \/ \E w \in Workers : serializer_save(w)
    \/ \E w \in Workers : order_save(w)

SpecConcurrent == Init /\ [][NextConcurrent]_vars

\* ------------------------------------------------ validation of card fields
Strings(alphabet, n) == UNION {[1..k -> alphabet] : k \in 0..n}

CardInputs ==
    {[PaymentBase EXCEPT !.year = v] : v \in Strings({"2", "a"}, MaxCardLen)}
    \cup {[PaymentBase EXCEPT !.month = v] :
             v \in Strings({"0", "1", "3", "a"}, MaxMonthLen)}
    \cup {[PaymentBase EXCEPT !.code = v] : v \in Strings({"1", "a"}, MaxCardLen)}
    \cup {[PaymentBase EXCEPT !.year = y, !.month = m, !.code = c] :
             y \in {<<"2", "0", "2", "5">>, <<"2", "5">>},
             m \in {<<"0", "2">>, <<"1", "3">>, <<"7">>},
             c \in {<<"1", "2", "3">>, <<"1", "2">>, <<"c", "o", "d", "e">>}}

InitCard ==
    /\ InitBase
    /\ card \in {[NoCard EXCEPT !.data = d] : d \in CardInputs}

\* serializer.is_valid() of PaymentSerializer(data=...)
PaymentSerializer_is_valid ==
    /\ ~card.validated
    /\ card' = [card EXCEPT !.validated = TRUE,
                            !.errors = PaymentSerializer_errors(card.data)]
    /\ UNCHANGED <<db, cart, session_order_id, request, response, reqs, catalog>>

NextCard == PaymentSerializer_is_valid

SpecCard == InitCard /\ [][NextCard]_vars

\* ------------------------------------------------- the cart of one session
\* the counts a client may send, zero and negative ones included
CartQuantities == {-1, 0, 1, 2}

\* Cart.clear
Cart_clear(client) ==
    /\ request' = Req("cart_clear", client, 0, <<>>)
    /\ cart' = [cart EXCEPT ![client] = Cart_cleared(@)]
    /\ response' = NoResponse
    /\ UNCHANGED <<db, session_order_id, reqs, card, catalog>>

\* the shop's staff saves a product with another price
ProductAdmin_save(product_id, price) ==
    /\ catalog[product_id] # price
    /\ catalog' = [catalog EXCEPT ![product_id] = price]
    /\ request' = Req("product_save", Anonymous, product_id, <<>>)
    /\ response' = NoResponse
    /\ UNCHANGED <<db, cart, session_order_id, reqs, card>>

NextCart ==
    \/ \E c \in CartClients, p \in Products \cup {MissingProduct},
          q \in CartQuantities : CartAPI_post(c, p, q)
    \/ \E c \in CartClients, p \in Products \cup {MissingProduct},
          q \in CartQuantities : CartAPI_delete(c, p, q)
    \/ \E c \in CartClients : Cart_clear(c)
    \/ \E c \in CartClients : CartAPI_get(c)
    \/ \E price \in NewPrices : ProductAdmin_save(1, price)

SpecCart == Init /\ [][NextCart]_vars

\* ------------------------------------------------- a cart and its checkout
CheckoutQuantities == Quantities \cup {0}

\* request bodies, some with a line that lacks id or count
CheckoutBodies ==
    Bodies \cup {<<[id |-> 1]>>,
                 <<[id |-> 1, count |-> 1], [count |-> 1]>>}

NextCheckout ==
    \/ \E c \in CartClients, p \in Products, q \in CheckoutQuantities :
          CartAPI_post(c, p, q)
    \/ \E c \in CartClients, p \in Products, q \in Quantities :
          CartAPI_delete(c, p, q)
    \/ \E c \in CartClients : Cart_clear(c)
    \/ \E c \in CartClients : CartAPI_get(c)
    \/ \E c \in CartClients, b \in CheckoutBodies : OrderView_post(c, b)
    \/ \E price \in NewPrices : ProductAdmin_save(1, price)

SpecCheckout == Init /\ [][NextCheckout]_vars

\* ------------------------------------- cart requests handled in parallel
\* Each worker handles one add or remove request of a session.  The session
\* store is read when Cart.__init__ first touches request.session; Cart.add
\* and Cart.remove change the request's own copy of the items; the copy is
\* written back whole when the session is saved for the response.
\* a save that leaves the session unmarked, so that nothing is written
Cart_save_NotModified(stored, own) == stored

\* Cart.save: session['cart'] = self.cart, session.modified = True: the
\* stored items become the request's own copy, whatever was stored since
Cart_save(stored, own) == own

\* Cart(request) followed by cart.add or cart.remove on the copy
Cart_init(w, op, client, product_id, quantity) ==
    /\ reqs[w].pc = "idle"
    /\ op = "cart_add"
          => CountAfterAdd(cart[client], product_id, quantity) \in -MaxCount..MaxCount
    /\ LET items == cart[client]
           found == \/ op = "cart_remove"
                    \/ InCart(items, product_id)
                    \/ product_id \in DOMAIN catalog
           own == IF op = "cart_add" THEN Cart_add(items, product_id, quantity)
                  ELSE Cart_remove(items, product_id, quantity)
       IN  reqs' = [reqs EXCEPT ![w] =
              IF found
              THEN [IdleWorker EXCEPT !.pc = "modified", !.op = op,
                                      !.user = client, !.pk = product_id,
                                      !.pending = own,
                                      !.response = CartResponse(own)]
              ELSE [IdleWorker EXCEPT !.pc = "done", !.op = op,
                                      !.user = client, !.pk = product_id,
                                      !.response = Resp(500, "Product.DoesNotExist")]]
    /\ UNCHANGED <<db, cart, session_order_id, request, response, card, catalog>>

\* the session is saved and the response returned
session_save(w) ==
    /\ reqs[w].pc = "modified"
    /\ cart' = [cart EXCEPT ![reqs[w].user] = Cart_save(@, reqs[w].pending)]
    /\ reqs' = [reqs EXCEPT ![w].pc = "done"]
    /\ UNCHANGED <<db, session_order_id, request, response, card, catalog>>

NextCartRace ==
    \/ \E c \in CartClients, p \in Products, q \in Quantities :
          CartAPI_post(c, p, q)
    \/ \E w \in Workers, c \in CartClients,
          p \in Products \cup {MissingProduct}, q \in Quantities :
             Cart_init(w, "cart_add", c, p, q)
    \/ \E w \in Workers, c \in CartClients, p \in Products, q \in Quantities :
             Cart_init(w, "cart_remove", c, p, q)
    \/ \E w \in Workers : session_save(w)

SpecCartRace == Init /\ [][NextCartRace]_vars

\* ------------------------------------------- the total cost at confirmation
\* candidate totals around min_cost of the free type, for every type
TotalPayloads ==
    {[ConfirmBase EXCEPT !.deliveryType = t, !.totalCost = s] :
        t \in DeliveryTypes \cup {"drone"}, s \in {1999, 2000, 2001}}
    \cup {Only(ConfirmBase, {"deliveryType"}),
          Only([ConfirmBase EXCEPT !.deliveryType = "drone"], {"deliveryType"})}

NextConfirm ==
    \/ \E p \in Products : CartAPI_post("u1", p, 1)
    \/ OrderView_post("u1", <<>>)
    \/ \E u \in Users, pk \in 1..(Len(orders) + 1), d \in TotalPayloads :
          OrderDetailView_post(u, pk, d)

SpecConfirm == Init /\ [][NextConfirm]_vars

\* ------------------------------------- orders read and confirmed by anyone
\* candidate totals below zero, for every type
NegativePayloads ==
    {[ConfirmBase EXCEPT !.deliveryType = t, !.totalCost = s] :
        t \in DeliveryTypes, s \in {-1000, -200}}

NextDetail ==
    \/ \E p \in Products : CartAPI_post("u1", p, 1)
    \/ OrderView_post("u1", <<>>)
    \/ \E u \in Users, pk \in 1..(Len(orders) + 1),
          d \in NegativePayloads \cup {ConfirmBase} :
             OrderDetailView_post(u, pk, d)
    \/ \E u \in Clients, pk \in 1..(Len(orders) + 1) :
          OrderDetailView_get(u, pk)

SpecDetail == Init /\ [][NextDetail]_vars

(***************************************************************************)
(* Claims about complete, non-overlapping requests (Spec).                 *)
(***************************************************************************)
StatusRank(st) ==
    CASE st = "accepted" -> 1 [] st = "confirmed" -> 2 [] st = "paid" -> 3
      [] OTHER -> 0

\* the last request was a confirmation or payment of an existing order,
\* made by the profile that owns it
OwnerRequest(req, rows) ==
    /\ req.op \in {"confirm", "payment"}
    /\ req.pk \in 1..Len(rows)
    /\ req.user = rows[req.pk].profile

\* C1: over complete checkout, confirmation and payment requests, no order's
\* status moves backward in accepted < confirmed < paid.
C1_StatusNeverMovesBackward ==
    [][\A pk \in OrderIds :
          StatusRank(orders'[pk].status) >= StatusRank(orders[pk].status)]_vars

\* a confirmed-then-paid order on which a later confirmation was refused
C1_Witness ==
    /\ request.op = "confirm"
    /\ OwnerRequest(request, orders)
    /\ orders[request.pk].status = "paid"
    /\ orders[request.pk].deliveryType # ""
    /\ response.status = 403

\* C2: a confirmation or payment request by the owner of a paid order is
\* answered 403 and leaves the order's row, the order items and the Payment
\* rows as they were.
C2_PaidOrderRejectsMutation ==
    [][(OwnerRequest(request', orders) /\ orders[request'.pk].status = "paid")
          => /\ response'.status = 403
             /\ orders' = orders
             /\ orderItems' = orderItems
             /\ payments' = payments]_vars

\* both operations were refused on a paid order: the confirmation just now
C2_Witness ==
    /\ request.op = "confirm"
    /\ OwnerRequest(request, orders)
    /\ orders[request.pk].status = "paid"
    /\ response = Resp(403, "Paid orders cannot be updated.")

\* C3: a payment request by the owner of a paid order is answered 403 "Paid
\* orders cannot be updated." for every payload, valid or not: never a 400.
C3_PaidCheckBeforeValidation ==
    [][(/\ request'.op = "payment"
        /\ OwnerRequest(request', orders)
        /\ orders[request'.pk].status = "paid")
          => response' = Resp(403, "Paid orders cannot be updated.")]_vars

C3_Witness ==
    /\ request.op = "payment"
    /\ OwnerRequest(request, orders)
    /\ orders[request.pk].status = "paid"
    /\ response = Resp(403, "Paid orders cannot be updated.")

\* C4: a confirmation and a payment request by an authenticated user whose
\* profile is not the order's are answered 403 for every payload, change no
\* order and create no Payment.
C4_NonOwnerForbidden ==
    [][(/\ request'.op \in {"confirm", "payment"}
        /\ request'.user \in Users
        /\ request'.pk \in OrderIds
        /\ orders[request'.pk].profile # request'.user)
          => /\ response'.status = 403
             /\ orders' = orders
             /\ payments' = payments]_vars

C4_Witness ==
    /\ request.op \in {"confirm", "payment"}
    /\ request.user \in Users
    /\ request.pk \in OrderIds
    /\ orders[request.pk].profile # request.user
    /\ orders[request.pk].status # "paid"
    /\ response.status = 403

\* C7: after a payment request answered 200, the order is paid and a new
\* Payment row references it and carries the submitted card fields.
C7_PaymentPersisted ==
    [][(request'.op = "payment" /\ response'.status = 200)
          => \A d \in PaymentPayloads :
                PaymentView_post(request'.user, request'.pk, d)
                => /\ orders'[request'.pk].status = "paid"
                   /\ \E i \in (Len(payments) + 1)..Len(payments') :
                         payments'[i] = [order |-> request'.pk,
                                         number |-> d.number, name |-> d.name,
                                         year |-> d.year, month |-> d.month,
                                         code |-> d.code]]_vars

\* the fields of a payment payload that break the card rules the claim
\* names: a blank or over-long number, a year that is not 4 digits, a month
\* that is no number from 1 to 12, a code that is not 3 or 4 digits
OffendingFields(d) ==
    {f \in DOMAIN d :
        \/ d[f] = <<>>
        \/ Len(d[f]) > PaymentMaxLength[f]
        \/ f = "year" /\ ~(isdigit(d[f]) /\ Len(d[f]) = 4)
        \/ f = "month" /\ ~(isdigit(d[f]) /\ int(d[f]) \in 1..12)
        \/ f = "code" /\ ~(isdigit(d[f]) /\ Len(d[f]) \in {3, 4})}

\* C8: a payment request by the owner of a non-paid order whose card fields
\* fail validation is answered 400 with errors keyed by exactly the offending
\* fields, and changes neither the order nor the Payment rows.
C8_InvalidCardRejected ==
    [][(/\ request'.op = "payment"
        /\ OwnerRequest(request', orders)
        /\ orders[request'.pk].status # "paid")
          => \A d \in PaymentPayloads :
                (/\ PaymentView_post(request'.user, request'.pk, d)
                 /\ OffendingFields(d) # {})
                => /\ response'.status = 400
                   /\ ErrorKeys(response'.errors) = OffendingFields(d)
                   /\ orders' = orders
                   /\ payments' = payments]_vars

C8_Witness ==
    /\ request.op = "payment"
    /\ OwnerRequest(request, orders)
    /\ orders[request.pk].status \in {"accepted", "confirmed"}
    /\ response.status = 400
    /\ "month" \in ErrorKeys(response.errors)

\* C10: a confirmation request answered 200 leaves the order with status
\* confirmed and with the submitted deliveryType, paymentType, city and
\* address.
C10_ConfirmationStoresFields ==
    [][(request'.op = "confirm" /\ response'.status = 200)
          => \A d \in ConfirmPayloads :
                OrderDetailView_post(request'.user, request'.pk, d)
                => /\ orders'[request'.pk].status = "confirmed"
                   /\ \A f \in {"deliveryType", "paymentType", "city", "address"} :
                         f \in DOMAIN d => orders'[request'.pk][f] = d[f]]_vars

C10_Witness ==
    /\ request.op = "confirm"
    /\ OwnerRequest(request, orders)
    /\ response.status = 200
    /\ orders[request.pk].status = "confirmed"
    /\ orders[request.pk].deliveryType \in DeliveryTypes
    /\ orders[request.pk].city = "London"

\* C24: a payment request by the owner of an order that is not paid, with
\* card fields that pass validation, is answered 200 and leaves the order
\* paid, also when the order was accepted and never confirmed.
C24_PaymentOnAnyNonPaidOrder ==
    [][(/\ request'.op = "payment"
        /\ OwnerRequest(request', orders)
        /\ orders[request'.pk].status # "paid")
          => \A d \in PaymentPayloads :
                (/\ PaymentView_post(request'.user, request'.pk, d)
                 /\ OffendingFields(d) = {})
                => /\ response'.status = 200
                   /\ orders'[request'.pk].status = "paid"]_vars

\* a paid order that holds no delivery type: it was never confirmed
C24_Witness ==
    /\ request.op = "payment"
    /\ OwnerRequest(request, orders)
    /\ response.status = 200
    /\ orders[request.pk].status = "paid"
    /\ orders[request.pk].deliveryType = ""

\* C30: in every reachable state the status of every persisted order is one
\* of accepted, confirmed and paid.
C30_StatusInEnum ==
    \A pk \in OrderIds : orders[pk].status \in {"accepted", "confirmed", "paid"}

\* C26: a checkout request with no authenticated user is answered 201 and
\* creates an order that no profile owns.
C26_AnonymousCheckoutPermitted ==
    [][(request'.op = "checkout" /\ request'.user = Anonymous)
          => /\ response'.status = 201
             /\ Len(orders') = Len(orders) + 1
             /\ orders'[Len(orders')].profile \notin Users]_vars

\* the 403 a requester gets whose profile is not the order's
OwnershipDenied(op) ==
    IF op = "confirm"
    THEN Resp(403, "You do not have permission to update this order.")
    ELSE Resp(403, "You do not have permission to confirm payment for this order.")

\* the response the guards of a confirmation or payment request give to a
\* requester of the set who, before the payload is looked at
GuardOrder(who) ==
    (request'.op \in {"confirm", "payment"} /\ request'.user \in who)
       => /\ request'.pk \notin OrderIds => response' = OrderNotFound
          /\ (/\ request'.pk \in OrderIds
              /\ orders[request'.pk].profile # request'.user)
             => /\ response' = OwnershipDenied(request'.op)
                /\ orders' = orders
          /\ (/\ request'.pk \in OrderIds
              /\ orders[request'.pk].profile = request'.user
              /\ orders[request'.pk].status = "paid")
             => response' = Resp(403, "Paid orders cannot be updated.")

C5_AtMostOnePaymentSucceeds ==
    \A w1, w2 \in Workers :
        (/\ w1 # w2
         /\ Returned(w1, "payment", 200)
         /\ Returned(w2, "payment", 200))
        => reqs[w1].pk # reqs[w2].pk

\* C6: once a payment request on an order has been answered 200, the order's
\* status is not confirmed, whatever confirmation request overlaps it.
C6_NotConfirmedAfterPaid ==
    \A w \in Workers :
        Returned(w, "payment", 200) => orders[reqs[w].pk].status # "confirmed"

(***************************************************************************)
(* Claims about the validation of card fields (SpecCard).                  *)
(***************************************************************************)
\* C9: validation accepts the year, month and code of a payload exactly when
\* the year is 4 digits, the month is 2 digits with a value from 1 to 12 and
\* the code is 3 or 4 digits.
C9_CardAcceptedExactlyWhen ==
    card.validated =>
        ((ErrorKeys(card.errors) \cap {"year", "month", "code"} = {})
         <=> (/\ isdigit(card.data.year) /\ Len(card.data.year) = 4
              /\ isdigit(card.data.month) /\ Len(card.data.month) = 2
              /\ int(card.data.month) \in 1..12
              /\ isdigit(card.data.code) /\ Len(card.data.code) \in {3, 4}))

(***************************************************************************)
(* Claims about the total cost at confirmation (SpecConfirm).              *)
(***************************************************************************)
\* C11: a confirmation request answered 200 whose payload carries the
\* candidate total s and a delivery type with a pricing row leaves the order
\* with totalCost s when the type is "free" and s > min_cost, and with
\* s + delivery_cost otherwise, whatever totalCost the order held before.
C11_DeliveryFeeRule ==
    [][(request'.op = "confirm" /\ response'.status = 200)
          => \A d \in TotalPayloads :
                OrderDetailView_post(request'.user, request'.pk, d)
                => LET row == OrderDeliveryType[d.deliveryType]
                       s == d.totalCost
                   IN  orders'[request'.pk].totalCost =
                          IF d.deliveryType = "free" /\ s > row.min_cost
                          THEN s ELSE s + row.delivery_cost]_vars

\* an order was confirmed with the free type and a candidate total equal to
\* min_cost: the fee was added
C11_Witness ==
    /\ request.op = "confirm"
    /\ response.status = 200
    /\ orders[request.pk].deliveryType = "free"
    /\ orders[request.pk].totalCost =
          OrderDeliveryType["free"].min_cost + OrderDeliveryType["free"].delivery_cost

\* C12: a confirmation request by the owner of an order whose deliveryType
\* has no row in the pricing table (its other fields passing field
\* validation) is answered 400 with an error that names the type, and leaves
\* every order row as it was.
C12_UnknownDeliveryTypeRejected ==
    [][(request'.op = "confirm" /\ OwnerRequest(request', orders))
          => \A d \in TotalPayloads :
                (/\ OrderDetailView_post(request'.user, request'.pk, d)
                 /\ d.deliveryType \notin DeliveryTypes)
                => /\ response'.status = 400
                   /\ Err("non_field_errors", "Unsupported delivery type: ",
                          d.deliveryType) \in response'.errors
                   /\ orders' = orders]_vars

\* the owner of an accepted order got the 400 that names the type
C12_Witness ==
    /\ request.op = "confirm"
    /\ OwnerRequest(request, orders)
    /\ orders[request.pk].status = "accepted"
    /\ response.status = 400
    /\ response.errors = {Err("non_field_errors", "Unsupported delivery type: ", "drone")}

\* the order is what a confirmation with payload d leaves behind
ConfirmedWith(order, d) ==
    /\ order.status = "confirmed"
    /\ \A f \in {"deliveryType", "paymentType", "city", "address"} :
          order[f] = d[f]
    /\ order.totalCost =
          IF d.deliveryType = "free"
             /\ d.totalCost > OrderDeliveryType[d.deliveryType].min_cost
          THEN d.totalCost
          ELSE d.totalCost + OrderDeliveryType[d.deliveryType].delivery_cost

\* C28: a confirmation request answered 200 leaves the order in a state that
\* the same request, made again, is answered 200 for and leaves as it is;
\* and a confirmation request on an order that is already what its payload
\* leaves behind changes no order.
C28_ConfirmationIdempotent ==
    [][(request'.op = "confirm" /\ response'.status = 200)
          => \A d \in TotalPayloads :
                OrderDetailView_post(request'.user, request'.pk, d)
                => LET pk == request'.pk
                       again == OrderDetailView_after_get(orders'[pk],
                                                          request'.user, d)
                   IN  /\ ConfirmedWith(orders'[pk], d)
                       /\ again.response.status = 200
                       /\ again.saves[Len(again.saves)] = orders'[pk]
                       /\ ConfirmedWith(orders[pk], d) => orders' = orders]_vars

\* after a confirmation answered 200 the order holds the candidate total
\* plus the delivery cost once
C28_Witness ==
    /\ request.op = "confirm"
    /\ response.status = 200
    /\ ConfirmedWith(orders[request.pk], ConfirmBase)
    /\ orders[request.pk].totalCost =
          ConfirmBase.totalCost + OrderDeliveryType["free"].delivery_cost

(***************************************************************************)
(* Claims about orders read and confirmed by any user (SpecDetail).        *)
(***************************************************************************)
\* C23: in every reachable state, every order's totalCost is 0 or more,
\* whatever candidate totals the confirmation requests carried.
C23_TotalCostNonNegative ==
    \A pk \in OrderIds : orders[pk].totalCost >= 0

\* C25: a GET /order/{id} by an authenticated user whose profile is not the
\* order's is answered without the order's data.
C25_DetailOnlyForOwner ==
    [][(/\ request'.op = "detail"
        /\ request'.user \in Users
        /\ request'.pk \in OrderIds
        /\ orders[request'.pk].profile # request'.user)
          => \A i \in 1..Len(response'.data) :
                response'.data[i].id # request'.pk]_vars

(***************************************************************************)
(* Claims about a cart and its checkout (SpecCheckout).                    *)
(***************************************************************************)
\* the sum of snapshot price times count over the first n lines
RECURSIVE SnapshotTotal(_, _)
SnapshotTotal(items, n) ==
    IF n = 0 THEN 0
    ELSE SnapshotTotal(items, n - 1) + items[n].count * items[n].price

\* C13: a checkout request answered 201 has created one order, owned by the
\* requesting profile, with status accepted and with totalCost equal to the
\* total of the session's cart as it was when the request arrived; the
\* response carries that order's id.
C13_CheckoutTotalIsCartTotal ==
    [][(request'.op = "checkout" /\ response'.status = 201)
          => LET pk == response'.orderId
                 items == cart[request'.user]
             IN  /\ Len(orders') = Len(orders) + 1
                 /\ pk = Len(orders')
                 /\ orders'[pk].profile = request'.user
                 /\ orders'[pk].status = "accepted"
                 /\ orders'[pk].totalCost = SnapshotTotal(items, Len(items))]_vars

\* an order was checked out from a cart of two lines, one of them holding
\* a price the catalog no longer has
C13_Witness ==
    /\ request.op = "checkout"
    /\ response.status = 201
    /\ orders[response.orderId].status = "accepted"
    /\ orders[response.orderId].totalCost = Price[1] + Price[2]
    /\ catalog[1] # Price[1]

\* C14: a checkout request answered 201 leaves the session's cart empty,
\* with total 0; a GET /basket on an empty cart returns the empty list; and
\* an empty cart gets a line only by an add request.
C14_CartEmptyAfterCheckout ==
    [][/\ (request'.op = "checkout" /\ response'.status = 201)
          => /\ cart'[request'.user] = <<>>
             /\ get_cart_total(cart'[request'.user]) = 0
       /\ (request'.op = "cart_get" /\ cart[request'.user] = <<>>)
          => response' = CartResponse(<<>>)
       /\ \A c \in Clients :
             (cart[c] = <<>> /\ cart'[c] # <<>>)
             => (request'.op = "cart_add" /\ request'.user = c)]_vars

\* the GET /basket that follows the checkout of a cart that held a line
C14_Witness ==
    /\ request.op = "cart_get"
    /\ response = CartResponse(<<>>)
    /\ orders # <<>>
    /\ orders[Len(orders)].status = "accepted"
    /\ orders[Len(orders)].totalCost > 0

\* C15: a checkout request that is not answered 201 leaves no Order row and
\* no OrderItem row behind: the tables are as they were before the request.
C15_CheckoutAllOrNothing ==
    [][(request'.op = "checkout" /\ response'.status # 201)
          => /\ orders' = orders
             /\ orderItems' = orderItems]_vars

\* the OrderItem rows of order pk that mirror the lines of a cart
ItemsOfCart(pk, items) ==
    [i \in 1..Len(items) |->
        [order |-> pk, product |-> items[i].product_id,
         quantity |-> items[i].count]]

\* C16: the OrderItem rows inserted by a checkout request answered 201 are
\* one per line of the session's cart as it was when the request arrived,
\* with that line's product and count, whatever the request body lists.
C16_OrderItemsAreCartLines ==
    [][(request'.op = "checkout" /\ response'.status = 201)
          => SubSeq(orderItems', Len(orderItems) + 1, Len(orderItems'))
                = ItemsOfCart(response'.orderId, cart[request'.user])]_vars

\* C17: in every reachable state, no cart holds two lines with the same
\* product_id.
C17_OneLinePerProduct ==
    \A c \in Clients : \A i, j \in 1..Len(cart[c]) :
        cart[c][i].product_id = cart[c][j].product_id => i = j

\* after a checkout, an add of the product on the first of two lines: the
\* product was in the cart already, and no line was appended
C17_Witness ==
    /\ request.op = "cart_add"
    /\ orders # <<>>
    /\ Len(cart[request.user]) = 2
    /\ cart[request.user][1].product_id = request.pk
    /\ response.status = 200

\* C29: a checkout request that is not answered 201 leaves every session's
\* cart as it was.
C29_FailedCheckoutKeepsCart ==
    [][(request'.op = "checkout" /\ response'.status # 201)
          => cart' = cart]_vars

\* a checkout that failed at a body line, with lines in the cart
C29_Witness ==
    /\ request.op = "checkout"
    /\ response.status = 500
    /\ response.detail \in {"KeyError", "Product.DoesNotExist"}
    /\ cart[request.user] # <<>>
    /\ get_cart_total(cart[request.user]) > 0

(***************************************************************************)
(* Claims about the cart of one session (SpecCart).                        *)
(***************************************************************************)
\* C18: in every state reachable by add and remove requests with any integer
\* counts, every stored line has a count greater than 0.
C18_CountsPositive ==
    \A c \in Clients : \A i \in 1..Len(cart[c]) : cart[c][i].count > 0

\* C19: after every request the cart's total is the sum over its lines of
\* the line's price times its count, where a line's price is the catalog
\* price at the add that created the line: it stays as it is for as long as
\* the line is in the cart, through price changes in the catalog and through
\* further adds of the product.
C19_TotalUsesSnapshotPrice ==
    [][\A c \in CartClients :
          /\ get_cart_total(cart'[c]) = SnapshotTotal(cart'[c], Len(cart'[c]))
          /\ \A p \in Products :
                InCart(cart'[c], p)
                => cart'[c][LineOf(cart'[c], p)].price =
                      IF InCart(cart[c], p)
                      THEN cart[c][LineOf(cart[c], p)].price
                      ELSE catalog[p]]_vars

\* an add of a product whose line holds a price the catalog no longer has
C19_Witness ==
    /\ request.op = "cart_add"
    /\ response.status = 200
    /\ InCart(cart[request.user], request.pk)
    /\ cart[request.user][LineOf(cart[request.user], request.pk)].price
          # catalog[request.pk]
    /\ get_cart_total(cart[request.user]) # 0

\* C20: an add request for a product that is neither in the cart nor in the
\* catalog is answered 404 and leaves the cart as it was; for a product in
\* the cart it adds the quantity to that line's count, whatever the catalog
\* holds; for a new product of the catalog it appends one line whose count
\* is the quantity.
C20_AddContract ==
    [][request'.op = "cart_add"
          => \A q \in CartQuantities :
                CartAPI_post(request'.user, request'.pk, q)
                => LET items == cart[request'.user]
                       p == request'.pk
                   IN  IF InCart(items, p)
                       THEN cart'[request'.user] =
                               [items EXCEPT ![LineOf(items, p)].count = @ + q]
                       ELSE IF p \in DOMAIN catalog
                       THEN /\ Len(cart'[request'.user]) = Len(items) + 1
                            /\ SubSeq(cart'[request'.user], 1, Len(items)) = items
                            /\ cart'[request'.user][Len(items) + 1].product_id = p
                            /\ cart'[request'.user][Len(items) + 1].count = q
                       ELSE /\ response'.status = 404
                            /\ cart'[request'.user] = items]_vars

\* the lines of every product but p, in their order
RECURSIVE OtherLines(_, _)
OtherLines(items, p) ==
    IF items = <<>> THEN <<>>
    ELSE IF items[1].product_id = p THEN OtherLines(Tail(items), p)
    ELSE <<items[1]>> \o OtherLines(Tail(items), p)

\* C21: a remove request is answered 200; for a product in the cart it
\* subtracts the quantity from the line's count and deletes the line when
\* the result is 0 or less; for a product not in the cart it leaves the cart
\* as it was; the lines of the other products are unchanged in both cases.
C21_RemoveContract ==
    [][request'.op = "cart_remove"
          => \A q \in CartQuantities :
                CartAPI_delete(request'.user, request'.pk, q)
                => LET items == cart[request'.user]
                       after == cart'[request'.user]
                       p == request'.pk
                   IN  /\ response'.status = 200
                       /\ OtherLines(after, p) = OtherLines(items, p)
                       /\ IF ~InCart(items, p) THEN after = items
                          ELSE LET left == items[LineOf(items, p)].count - q
                               IN  IF left <= 0 THEN ~InCart(after, p)
                                   ELSE /\ InCart(after, p)
                                        /\ Len(after) = Len(items)
                                        /\ LineOf(after, p) = LineOf(items, p)
                                        /\ after[LineOf(after, p)] =
                                              [items[LineOf(items, p)]
                                                  EXCEPT !.count = left]]_vars

\* after a remove request for a product, the cart holds no line of it and
\* still holds the line of the other product
C21_Witness ==
    /\ request.op = "cart_remove"
    /\ request.pk \in Products
    /\ ~InCart(cart[request.user], request.pk)
    /\ Len(cart[request.user]) = 1
    /\ cart[request.user][1].count > 0
    /\ response = CartResponse(cart[request.user])

(***************************************************************************)
(* Claims about cart requests handled at the same time (SpecCartRace).     *)
(***************************************************************************)
\* C22: a cart request that saves stores its own copy of the items whole,
\* whatever another request stored since the copy was read: the last save
\* wins, and nothing stops a request from reading while another holds an
\* unsaved copy.
C22_LastWriteWins ==
    [][\A w \in Workers :
          (reqs[w].pc = "modified" /\ reqs'[w].pc = "done")
          => /\ cart'[reqs[w].user] = reqs[w].pending
             /\ \A v \in Workers \ {w} :
                   reqs[v].pc = "idle" => ENABLED Cart_init(v, "cart_remove",
                                                           reqs[w].user, 1, 1)]_vars

\* a lost update: two add requests for different products were both
\* answered 200, each with the one line of its own copy, and the stored cart
\* holds one line
C22_Witness ==
    /\ \A w \in Workers : Returned(w, "cart_add", 200)
    /\ reqs["w1"].user = reqs["w2"].user
    /\ reqs["w1"].pk # reqs["w2"].pk
    /\ Len(reqs["w1"].response.data) = 1
    /\ Len(reqs["w2"].response.data) = 1
    /\ Len(cart[reqs["w1"].user]) = 1
====
